---- MODULE Spec2Model ----
(***************************************************************************)
(* A model of the conviction-voting relationship graph of coodcad:         *)
(* network_utils.py (graph construction, the three stochastic edge         *)
(* generators, the aggregation queries) and entities.py (Proposal).        *)
(*                                                                         *)
(* The networkx DiGraph is a record [node, edge]: node maps a node id to   *)
(* its 'item', edge maps an ordered pair <<u, v>> to its attribute dict    *)
(* (a record whose fields are the keys the dict holds).  Random draws are  *)
(* inputs of the actions, taken from small sets.  Numbers are integers:    *)
(* a uniform draw and a conflict strength are in hundredths, an affinity   *)
(* in ten-thousandths.                                                     *)
(***************************************************************************)
EXTENDS Integers, Sequences, FiniteSets, TLC

VARIABLES network, proposal, agent, config, ret

vars == <<network, proposal, agent, config, ret>>

(* ------------------------------ bounds -------------------------------- *)

\* most nodes the graph grows to while it is built and grown
MaxNodes == 3
\* most participants, and most proposals, bootstrap_network is called with
MaxBoot == 2
\* most nodes of the graphs the generators are re-run on and whose proposals
\* change status
MaxSmall == 2
\* funds_requested is drawn from 1..MaxFunds
MaxFunds == 2
\* funding_pool is drawn from 1..MaxPool, token_supply from 1..MaxSupply
MaxPool == 3
MaxSupply == 2
\* a proposal's conviction is driven to values in 0..MaxConviction
MaxConviction == 3
\* update_age is followed up to this age
MaxAge == 2
\* a participant's token balances are driven to values in 0..MaxHoldings
MaxHoldings == 2

(* ------------------------- program constants -------------------------- *)

\* influence(scale=1, sigmas=3)
scale == 1
sigmas == 3
\* setup_conflict_edges(rate=.25), in hundredths
rate == 25
\* 1.0 in hundredths
One == 100

\* Python's None, and a value v that may be None, as <<>> and <<v>>
None == <<>>

Some(v) == <<v>>

ProposalStatus == {"CANDIDATE", "ACTIVE", "COMPLETED", "FAILED"}

(* ------------------------------ entities ------------------------------ *)

Participant == [kind |-> "Participant"]

\* Proposal.__init__
Proposal(funds_requested, trigger) ==
    [kind |-> "Proposal", conviction |-> 0, status |-> "CANDIDATE", age |-> 0,
     funds_requested |-> funds_requested, trigger |-> trigger]

isParticipant(item) == item.kind = "Participant"

isProposal(item) == item.kind = "Proposal"

(* -------------------------- networkx DiGraph -------------------------- *)

DiGraph == [node |-> <<>>, edge |-> <<>>]

Nodes(n) == DOMAIN n.node

Edges(n) == DOMAIN n.edge

has_edge(n, u, v) == <<u, v>> \in Edges(n)

\* dict.update: the keys of new overwrite, the other keys of old stay
Update(old, new) ==
    [k \in (DOMAIN old) \cup (DOMAIN new) |->
        IF k \in DOMAIN new THEN new[k] ELSE old[k]]

\* DiGraph.add_node(j, item=p): a new node, or the item of an old one replaced
add_node(n, j, item) ==
    [n EXCEPT !.node = [i \in (DOMAIN @) \cup {j} |-> IF i = j THEN item ELSE @[i]]]

\* DiGraph.add_edge(u, v, **attr) for every pair of DOMAIN attr at once (the
\* pairs are distinct, so the calls do not interfere): a new edge gets
\* attr[e], an existing edge keeps its dict, updated with attr[e].
\* (add_edge would also create a missing endpoint; every caller passes ids
\* taken from the graph's own node views.)
AttrOf(n, e) == IF e \in Edges(n) THEN n.edge[e] ELSE <<>>

add_edges(n, attr) ==
    [n EXCEPT !.edge = [e \in (DOMAIN @) \cup (DOMAIN attr) |->
        IF e \in DOMAIN attr THEN Update(AttrOf(n, e), attr[e]) ELSE @[e]]]

(* ------------------------------ node views ---------------------------- *)

\* get_participants: the ids whose item is a Participant
get_participants(n) == {i \in Nodes(n) : isParticipant(n.node[i])}

\* get_proposals(network, status): the ids whose item is a Proposal, of the
\* given status when one is given (every ProposalStatus member is truthy)
get_proposals(n, status) ==
    {i \in Nodes(n) :
        IF isProposal(n.node[i])
        THEN (status # None => n.node[i].status = status[1])
        ELSE FALSE}

\* get_edges_by_type
get_edges_by_type(n, edge_type_selection) ==
    {e \in Edges(n) : n.edge[e].type = edge_type_selection}

(* ----------------------- support-edge generator ----------------------- *)

\* 1.0 in ten-thousandths, the unit of an affinity
AffinityUnit == One * One

\* a_rv = 1 - 4*(1-rv)*rv for rv in hundredths, in ten-thousandths
Affinity(rv) == AffinityUnit - 4 * (One - rv) * rv

\* create_support_edge's attributes for the draw rv
SupportAttr(rv) ==
    [affinity |-> Affinity(rv), tokens |-> 0, conviction |-> 0, type |-> "support"]

\* the (participant, proposal) pairs setup_support_edges visits
SupportPairs(n, idx) ==
    LET participants == get_participants(n)
        proposals == get_proposals(n, None)
    IN  IF idx = None THEN participants \X proposals
        ELSE IF isProposal(n.node[idx[1]]) THEN participants \X {idx[1]}
        ELSE IF isParticipant(n.node[idx[1]]) THEN {idx[1]} \X proposals
        ELSE {}

\* setup_support_edges(network, idx) with the draws d, one per visited pair
setup_support_edges(n, idx, d) ==
    add_edges(n, [e \in SupportPairs(n, idx) |-> SupportAttr(d[e])])

\* the values of np.random.rand() followed, in hundredths: 0 and 1/2
Draws == {0, One \div 2}

(* ------------------------ influence-edge generator -------------------- *)

\* the cutoff of influence(): scale + sigmas*scale**2
InfluenceCutoff == scale + sigmas * scale * scale

\* influence() for the exponential variate rv: the variate when it is above
\* the cutoff, else None
influence(rv) == IF rv > InfluenceCutoff THEN Some(rv) ELSE None

\* Python truthiness of an Optional[float]: None and 0.0 are false
Truthy(r) == r # None /\ r[1] # 0

\* the exponential variates drawn: the cutoff itself (no influence) and the
\* next value above it
InfluenceRvs == {InfluenceCutoff, InfluenceCutoff + 1}

InfluenceAttr(r) == [influence |-> r[1], type |-> "influence"]

\* setup_influence_edges_bulk without its other_participant == i test
InfluenceCallsBulk_self(n) ==
    LET participants == get_participants(n)
    IN  {e \in participants \X participants : ~has_edge(n, e[1], e[2])}

\* The ordered pairs for which setup_influence_edges_bulk calls influence()
InfluenceCallsBulk(n) ==
    LET participants == get_participants(n)
    IN  {e \in participants \X participants :
            ~(e[2] = e[1]) /\ ~has_edge(n, e[1], e[2])}

\* setup_influence_edges_bulk with the variates d, one per call: the graph and
\* what each call of influence() returned
setup_influence_edges_bulk(n, d) ==
    LET calls == [e \in InfluenceCallsBulk(n) |-> influence(d[e])]
        hits == {e \in DOMAIN calls : Truthy(calls[e])}
    IN  [network |-> add_edges(n, [e \in hits |-> InfluenceAttr(calls[e])]),
         calls |-> calls]

\* setup_influence_edges_single without its second block, the edges that
\* leave the participant
InfluenceCallsSingle_incoming(n, participant) ==
    LET other_participants == get_participants(n) \ {participant}
    IN  {e \in other_participants \X {participant} : ~has_edge(n, e[1], e[2])}

\* The ordered pairs for which setup_influence_edges_single calls influence():
\* (other, participant) and (participant, other) for every other participant
InfluenceCallsSingle(n, participant) ==
    LET other_participants == get_participants(n) \ {participant}
    IN  {e \in other_participants \X {participant} : ~has_edge(n, e[1], e[2])}
        \cup
        {e \in {participant} \X other_participants : ~has_edge(n, e[1], e[2])}

\* setup_influence_edges_single(network, participant) with the variates d
setup_influence_edges_single(n, participant, d) ==
    LET calls == [e \in InfluenceCallsSingle(n, participant) |-> influence(d[e])]
        hits == {e \in DOMAIN calls : Truthy(calls[e])}
    IN  [network |-> add_edges(n, [e \in hits |-> InfluenceAttr(calls[e])]),
         calls |-> calls]

(* ------------------------ conflict-edge generator --------------------- *)

\* conflict_rv < rate
Conflicts(conflict_rv) == conflict_rv < rate

\* the attributes of a conflict edge: conflict = 1 - conflict_rv
ConflictAttr(conflict_rv) == [conflict |-> One - conflict_rv, type |-> "conflict"]

\* loop_over_other_proposals that does not skip the proposal itself
OtherProposals_self(proposals, prop) ==
    {prop} \X proposals

\* the ordered pairs loop_over_other_proposals draws for, for one proposal
OtherProposals(proposals, prop) ==
    {e \in {prop} \X proposals : ~(e[2] = prop)}

\* the ordered pairs setup_conflict_edges draws for
ConflictPairs(n, prop) ==
    LET proposals == get_proposals(n, None)
    IN  IF prop = None
        THEN UNION {OtherProposals(proposals, i) : i \in proposals}
        ELSE OtherProposals(proposals, prop[1])

\* the pairs setup_conflict_edges calls add_edge for, under the draws d
ConflictAdded(n, prop, d) == {e \in ConflictPairs(n, prop) : Conflicts(d[e])}

\* setup_conflict_edges(network, proposal) with the draws d, one per pair
setup_conflict_edges(n, prop, d) ==
    add_edges(n, [e \in ConflictAdded(n, prop, d) |-> ConflictAttr(d[e])])

(* --------------------------- trigger_threshold ------------------------ *)

\* float('inf') and numpy.nan
Infinity == 1000000
NaN == -1

\* convictionvoting.trigger_threshold: grows with requested/funds from a floor
\* scaled by supply, and is unattainable once the request reaches the pool
trigger_threshold(requested, funds, supply) ==
    IF requested < funds THEN (supply * funds) \div (funds - requested) ELSE Infinity

(* ------------------------ construction and growth --------------------- *)

\* create_network: one Participant per token batch, ids 0..len-1, no edges
create_network(participants) ==
    [node |-> [i \in 0 .. (participants - 1) |-> Participant], edge |-> <<>>]

\* the proposals bootstrap_network adds: ids len(n).., funds r_rv[k]
AddProposalNodes(n, r_rv, funding_pool, token_supply) ==
    LET base == Cardinality(Nodes(n))
    IN  [n EXCEPT !.node = [i \in (DOMAIN @) \cup (base .. (base + Len(r_rv) - 1)) |->
            IF i \in DOMAIN @ THEN @[i]
            ELSE Proposal(r_rv[i - base + 1],
                          trigger_threshold(r_rv[i - base + 1], funding_pool, token_supply))]]

\* bootstrap_network with its draws: sd for the support pass, cd for the
\* conflict pass, id for the influence pass
bootstrap_network(n_participants, r_rv, funding_pool, token_supply, sd, cd, id) ==
    LET n0 == AddProposalNodes(create_network(n_participants), r_rv,
                               funding_pool, token_supply)
        n1 == setup_support_edges(n0, None, sd)
        n2 == setup_conflict_edges(n1, None, cd)
    IN  setup_influence_edges_bulk(n2, id).network

\* add_proposal that forgets to wire the support edges
add_proposal_unwired(n, p, d) ==
    LET j == Cardinality(Nodes(n))
    IN  <<add_node(n, j, p), j>>

\* add_proposal that takes the last id in use for the new node
add_proposal_last_id(n, p, d) ==
    LET j == Cardinality(Nodes(n)) - 1
        n1 == add_node(n, j, p)
    IN  <<setup_support_edges(n1, Some(j), [e \in SupportPairs(n1, Some(j)) |-> 0]), j>>

\* add_proposal that re-runs the bulk support pass over every pair
add_proposal_rescan(n, p, d) ==
    LET j == Cardinality(Nodes(n))
        n1 == add_node(n, j, p)
    IN  <<add_edges(n1, [e \in SupportPairs(n1, None) |-> SupportAttr(d[<<e[1], j>>])]), j>>

\* add_proposal(network, p) with the draws d: <<network, j>>
add_proposal(n, p, d) ==
    LET j == Cardinality(Nodes(n))
        n1 == add_node(n, j, p)
    IN  <<setup_support_edges(n1, Some(j), d), j>>

(* ------------------------- aggregation queries ------------------------ *)

\* the ids of a set in ascending order, the order a node view iterates in
RECURSIVE Ascending(_)
Ascending(S) ==
    IF S = {} THEN <<>>
    ELSE LET m == CHOOSE x \in S : \A y \in S : x <= y
         IN  <<m>> \o Ascending(S \ {m})

\* numpy.sum of a list
RECURSIVE np_sum(_)
np_sum(xs) == IF xs = <<>> THEN 0 ELSE Head(xs) + np_sum(Tail(xs))

\* calc_total_funds_requested that asks get_proposals for every status
calc_total_funds_requested_all(n) ==
    LET candidates == Ascending(get_proposals(n, None))
        fund_requests == [k \in DOMAIN candidates |-> n.node[candidates[k]].funds_requested]
    IN  np_sum(fund_requests)

\* calc_total_funds_requested
calc_total_funds_requested(n) ==
    LET candidates == Ascending(get_proposals(n, Some("CANDIDATE")))
        fund_requests == [k \in DOMAIN candidates |-> n.node[candidates[k]].funds_requested]
    IN  np_sum(fund_requests)

\* the edges of a set as a list, by source then target
RECURSIVE EdgeList(_)
EdgeList(S) ==
    IF S = {} THEN <<>>
    ELSE LET m == CHOOSE x \in S : \A y \in S :
                      x[1] < y[1] \/ (x[1] = y[1] /\ x[2] <= y[2])
         IN  <<m>> \o EdgeList(S \ {m})

\* x put in its place in the ascending list xs
RECURSIVE SortedInsert(_, _)
SortedInsert(x, xs) ==
    IF xs = <<>> THEN <<x>>
    ELSE IF x <= Head(xs) THEN <<x>> \o xs
    ELSE <<Head(xs)>> \o SortedInsert(x, Tail(xs))

\* the list xs in ascending order
RECURSIVE np_sort(_)
np_sort(xs) == IF xs = <<>> THEN <<>> ELSE SortedInsert(Head(xs), np_sort(Tail(xs)))

\* numpy.median of a list that is not empty: the middle value of the sorted
\* list, or the mean of the two middle values.  An affinity in ten-thousandths
\* is a multiple of 4, so the mean of two of them is a whole number.
np_median(xs) ==
    LET part == np_sort(xs)
        sz == Len(part)
    IN  IF sz % 2 = 1 THEN part[(sz + 1) \div 2]
        ELSE (part[sz \div 2] + part[sz \div 2 + 1]) \div 2

\* calc_median_affinity that answers 0 for a graph without support edges
calc_median_affinity_zero(n) ==
    LET supporters == EdgeList(get_edges_by_type(n, "support"))
        affinities == [k \in DOMAIN supporters |-> n.edge[supporters[k]].affinity]
    IN  IF Len(supporters) = 0
        THEN [raised |-> FALSE, val |-> Some(0)]
        ELSE [raised |-> FALSE, val |-> Some(np_median(affinities))]

\* calc_median_affinity: what it returns, or that it raised
calc_median_affinity(n) ==
    LET supporters == EdgeList(get_edges_by_type(n, "support"))
        affinities == [k \in DOMAIN supporters |-> n.edge[supporters[k]].affinity]
    IN  IF Len(supporters) = 0
        THEN [raised |-> TRUE, val |-> None]
        ELSE [raised |-> FALSE, val |-> Some(np_median(affinities))]

(* --------------------------- Proposal methods ------------------------- *)

\* Proposal.update_age
update_age(p) == [p EXCEPT !.age = @ + 1]

\* Proposal.update_threshold without its else branch
update_threshold_keep(p, funding_pool, token_supply) ==
    IF p.status = "CANDIDATE"
    THEN [p EXCEPT !.trigger = trigger_threshold(p.funds_requested, funding_pool, token_supply)]
    ELSE p

\* Proposal.update_threshold
update_threshold(p, funding_pool, token_supply) ==
    IF p.status = "CANDIDATE"
    THEN [p EXCEPT !.trigger = trigger_threshold(p.funds_requested, funding_pool, token_supply)]
    ELSE [p EXCEPT !.trigger = NaN]

\* Proposal.has_enough_conviction comparing with <= instead of <
has_enough_conviction_le(p, funding_pool, token_supply) ==
    IF p.status = "CANDIDATE"
    THEN LET threshold == trigger_threshold(p.funds_requested, funding_pool, token_supply)
         IN  IF p.conviction <= threshold
             THEN [raised |-> FALSE, val |-> FALSE]
             ELSE [raised |-> FALSE, val |-> TRUE]
    ELSE [raised |-> TRUE, val |-> FALSE]

\* Proposal.has_enough_conviction: what it returns, or that it raised
has_enough_conviction(p, funding_pool, token_supply) ==
    IF p.status = "CANDIDATE"
    THEN LET threshold == trigger_threshold(p.funds_requested, funding_pool, token_supply)
         IN  IF p.conviction < threshold
             THEN [raised |-> FALSE, val |-> FALSE]
             ELSE [raised |-> FALSE, val |-> TRUE]
    ELSE [raised |-> TRUE, val |-> FALSE]

\* The status changes the simulation makes (it assigns item.status): a
\* candidate is funded or fails, an active proposal completes or fails
Transition(from) ==
    CASE from = "CANDIDATE" -> {"ACTIVE", "FAILED"}
      [] from = "ACTIVE" -> {"COMPLETED", "FAILED"}
      [] OTHER -> {}

(* -------------------------- Participant methods ----------------------- *)

\* a Participant with its attributes: sentiment in hundredths
ParticipantOf(sentiment, holdings_vesting, holdings_nonvesting) ==
    [kind |-> "Participant", sentiment |-> sentiment,
     holdings_vesting |-> holdings_vesting,
     holdings_nonvesting |-> holdings_nonvesting]

\* utils.probability(p): a Bernoulli trial that succeeds when the uniform draw
\* rv falls below p, both in thousandths
probability(p, rv) == rv < p

\* engagement_rate = 0.3 * self.sentiment, in thousandths
engagement_rate(self) == 3 * self.sentiment

\* force = self.sentiment - config.sentiment_sensitivity, in hundredths
force(self, cfg) == self.sentiment - cfg.sentiment_sensitivity

\* Participant.sell that tests force > 0 as buy does
sell_as_buy(self, cfg, prv, rv) ==
    IF probability(engagement_rate(self), prv) /\ force(self, cfg) > 0
    THEN rv * force(self, cfg)
    ELSE 0

\* Participant.buy with the draws prv of probability() and rv of
\* np.random.rand(): the amount returned, in ten-thousandths
buy(self, cfg, prv, rv) ==
    IF probability(engagement_rate(self), prv) /\ force(self, cfg) > 0
    THEN rv * force(self, cfg)
    ELSE 0

\* Participant.sell, likewise
sell(self, cfg, prv, rv) ==
    IF probability(engagement_rate(self), prv) /\ force(self, cfg) < 0
    THEN rv * force(self, cfg)
    ELSE 0

(* -------------------------------- actions ----------------------------- *)

\* the draws of one pass over graph n
SupportDraws(n, idx) == [SupportPairs(n, idx) -> Draws]

ConflictDraws(n, prop) == [ConflictPairs(n, prop) -> Draws]

FundsRequested == 1 .. MaxFunds

FundingPools == 1 .. MaxPool

TokenSupplies == 1 .. MaxSupply

NodeCount(n) == Cardinality(Nodes(n))

\* bootstrap_network(n_participants, n_proposals, funding_pool, token_supply),
\* of at most maxNodes nodes, the funds requested drawn from funds
Bootstrap(maxNodes, funds) ==
    /\ ret.op = "init"
    /\ \E n_participants \in 0 .. MaxBoot, n_proposals \in 0 .. MaxBoot :
         /\ n_participants + n_proposals <= maxNodes
         /\ \E r_rv \in [1 .. n_proposals -> funds] :
              LET n0 == AddProposalNodes(create_network(n_participants), r_rv,
                                         MaxPool, MaxSupply)
              IN  \E sd \in SupportDraws(n0, None), cd \in ConflictDraws(n0, None),
                     id \in [InfluenceCallsBulk(n0) -> InfluenceRvs] :
                    /\ network' = bootstrap_network(n_participants, r_rv, MaxPool,
                                                    MaxSupply, sd, cd, id)
                    /\ ret' = [op |-> "bootstrap_network"]
    /\ UNCHANGED <<proposal, agent, config>>

\* add_proposal(network, Proposal(f, trigger))
AddProposal(maxNodes, funds) ==
    /\ ret.op # "init"
    /\ NodeCount(network) < maxNodes
    /\ \E f \in funds :
         LET p == Proposal(f, trigger_threshold(f, MaxPool, MaxSupply))
             n1 == add_node(network, NodeCount(network), p)
         IN  \E d \in SupportDraws(n1, Some(NodeCount(network))) :
               LET r == add_proposal(network, p, d)
               IN  /\ network' = r[1]
                   /\ ret' = [op |-> "add_proposal", val |-> r[2]]
    /\ UNCHANGED <<proposal, agent, config>>

\* A participant joins: a Participant node at the next id, its support edges to
\* every proposal, its influence edges to and from every participant
AddParticipant(maxNodes) ==
    /\ ret.op # "init"
    /\ NodeCount(network) < maxNodes
    /\ LET idx == NodeCount(network)
           n1 == add_node(network, idx, Participant)
       IN  \E sd \in SupportDraws(n1, Some(idx)),
              id \in [InfluenceCallsSingle(n1, idx) -> InfluenceRvs] :
             LET n2 == setup_support_edges(n1, Some(idx), sd)
                 r == setup_influence_edges_single(n2, idx, id)
             IN  /\ network' = r.network
                 /\ ret' = [op |-> "add_participant", participant |-> idx,
                            calls |-> r.calls]
    /\ UNCHANGED <<proposal, agent, config>>

\* setup_support_edges(network) and setup_support_edges(network, idx)
SetupSupportEdges ==
    /\ ret.op # "init"
    /\ \E idx \in {None} \cup {Some(i) : i \in Nodes(network)} :
         \E d \in SupportDraws(network, idx) :
           /\ network' = setup_support_edges(network, idx, d)
           /\ ret' = [op |-> "setup_support_edges", idx |-> idx]
    /\ UNCHANGED <<proposal, agent, config>>

\* setup_conflict_edges(network)
SetupConflictEdgesBulk ==
    /\ ret.op # "init"
    /\ \E d \in ConflictDraws(network, None) :
         /\ network' = setup_conflict_edges(network, None, d)
         /\ ret' = [op |-> "setup_conflict_edges", proposal |-> None,
                    added |-> ConflictAdded(network, None, d)]
    /\ UNCHANGED <<proposal, agent, config>>

\* setup_conflict_edges(network, proposal)
SetupConflictEdgesFor ==
    /\ ret.op # "init"
    /\ \E prop \in {Some(i) : i \in get_proposals(network, None)} :
         \E d \in ConflictDraws(network, prop) :
           /\ network' = setup_conflict_edges(network, prop, d)
           /\ ret' = [op |-> "setup_conflict_edges", proposal |-> prop,
                      added |-> ConflictAdded(network, prop, d)]
    /\ UNCHANGED <<proposal, agent, config>>

\* setup_influence_edges_bulk(network)
SetupInfluenceEdgesBulk ==
    /\ ret.op # "init"
    /\ \E d \in [InfluenceCallsBulk(network) -> InfluenceRvs] :
         /\ network' = setup_influence_edges_bulk(network, d).network
         /\ ret' = [op |-> "setup_influence_edges_bulk"]
    /\ UNCHANGED <<proposal, agent, config>>

\* setup_influence_edges_single(network, participant)
SetupInfluenceEdgesSingle ==
    /\ ret.op # "init"
    /\ \E participant \in get_participants(network) :
         \E d \in [InfluenceCallsSingle(network, participant) -> InfluenceRvs] :
           LET r == setup_influence_edges_single(network, participant, d)
           IN  /\ network' = r.network
               /\ ret' = [op |-> "setup_influence_edges_single",
                          participant |-> participant, calls |-> r.calls]
    /\ UNCHANGED <<proposal, agent, config>>

\* A participant commits tokens to a proposal and conviction builds up on the
\* support edge
Stake ==
    /\ ret.op # "init"
    /\ \E e \in get_edges_by_type(network, "support") :
         /\ network.edge[e].tokens = 0
         /\ network' = [network EXCEPT !.edge[e].tokens = 1, !.edge[e].conviction = 1]
         /\ ret' = [op |-> "stake"]
    /\ UNCHANGED <<proposal, agent, config>>

\* network.nodes[i]["item"].status = s
SetStatus ==
    /\ ret.op # "init"
    /\ \E i \in get_proposals(network, None) :
         \E s \in Transition(network.node[i].status) :
           /\ network' = [network EXCEPT !.node[i].status = s]
           /\ ret' = [op |-> "set_status"]
    /\ UNCHANGED <<proposal, agent, config>>

\* calc_total_funds_requested(network)
CalcTotalFundsRequested ==
    /\ ret.op # "init"
    /\ ret' = [op |-> "calc_total_funds_requested",
               val |-> calc_total_funds_requested(network)]
    /\ UNCHANGED <<network, proposal, agent, config>>

\* calc_median_affinity(network)
CalcMedianAffinity ==
    /\ ret.op # "init"
    /\ LET r == calc_median_affinity(network)
       IN  ret' = [op |-> "calc_median_affinity", raised |-> r.raised, val |-> r.val]
    /\ UNCHANGED <<network, proposal, agent, config>>

(* --------------------------- Proposal actions ------------------------- *)

UpdateAge ==
    /\ proposal.age < MaxAge
    /\ proposal' = update_age(proposal)
    /\ ret' = [op |-> "update_age", val |-> proposal'.age]
    /\ UNCHANGED <<network, agent, config>>

UpdateThreshold ==
    /\ \E fp \in FundingPools, ts \in TokenSupplies :
         /\ proposal' = update_threshold(proposal, fp, ts)
         /\ ret' = [op |-> "update_threshold", funding_pool |-> fp,
                    token_supply |-> ts, val |-> proposal'.trigger]
    /\ UNCHANGED <<network, agent, config>>

HasEnoughConviction ==
    /\ \E fp \in FundingPools, ts \in TokenSupplies :
         LET r == has_enough_conviction(proposal, fp, ts)
         IN  ret' = [op |-> "has_enough_conviction", funding_pool |-> fp,
                     token_supply |-> ts, raised |-> r.raised, val |-> r.val]
    /\ UNCHANGED <<network, proposal, agent, config>>

\* proposal.status = s
ProposalSetStatus ==
    /\ \E s \in Transition(proposal.status) :
         proposal' = [proposal EXCEPT !.status = s]
    /\ ret' = [op |-> "set_status"]
    /\ UNCHANGED <<network, agent, config>>

\* the simulation step writes the conviction gathered over the support edges
ProposalSetConviction ==
    /\ \E c \in 0 .. MaxConviction :
         /\ c # proposal.conviction
         /\ proposal' = [proposal EXCEPT !.conviction = c]
    /\ ret' = [op |-> "set_conviction"]
    /\ UNCHANGED <<network, agent, config>>

(* -------------------------- Participant actions ----------------------- *)

\* self.sentiment = np.random.rand(): values of [0, 1) in hundredths
Sentiments == {0, One \div 4, One \div 2, One - 1}

\* values of config.sentiment_sensitivity, in hundredths
Sensitivities == {One \div 4, One \div 2, (3 * One) \div 4}

\* the uniform draws of probability(), in thousandths
ProbabilityDraws == {10 * d : d \in Draws}

Holdings == 0 .. MaxHoldings

\* participant.buy(); ret keeps what buy and sell returned in this step
ParticipantBuy ==
    /\ \E prv \in ProbabilityDraws, rv \in Draws :
         LET r == buy(agent, config, prv, rv)
         IN  ret' = [op |-> "buy", val |-> r, buy |-> Some(r), sell |-> ret.sell]
    /\ UNCHANGED <<network, proposal, agent, config>>

\* participant.sell()
ParticipantSell ==
    /\ \E prv \in ProbabilityDraws, rv \in Draws :
         LET r == sell(agent, config, prv, rv)
         IN  ret' = [op |-> "sell", val |-> r, buy |-> ret.buy, sell |-> Some(r)]
    /\ UNCHANGED <<network, proposal, agent, config>>

\* the next simulation step: the caller has applied the amounts to the
\* holdings and the sentiment has moved
ParticipantStep ==
    /\ \E st \in Sentiments, hv \in Holdings, hnv \in Holdings :
         /\ ParticipantOf(st, hv, hnv) # agent
         /\ agent' = ParticipantOf(st, hv, hnv)
    /\ ret' = [op |-> "step", val |-> 0, buy |-> None, sell |-> None]
    /\ UNCHANGED <<network, proposal, config>>

(* ---------------------------- specifications -------------------------- *)

\* the empty graph before bootstrap_network
Init ==
    /\ network = DiGraph
    /\ proposal = None
    /\ agent = None
    /\ config = None
    /\ ret = [op |-> "init"]

\* the graph is bootstrapped, then proposals and participants join
Next ==
    \/ Bootstrap(MaxNodes, FundsRequested)
    \/ AddProposal(MaxNodes, FundsRequested)
    \/ AddParticipant(MaxNodes)

Spec == Init /\ [][Next]_vars

\* the generators are re-run on a graph that exists
NextGen ==
    \/ Bootstrap(MaxSmall, {MaxFunds})
    \/ AddProposal(MaxSmall, {MaxFunds})
    \/ AddParticipant(MaxSmall)
    \/ SetupSupportEdges
    \/ SetupConflictEdgesBulk
    \/ SetupConflictEdgesFor
    \/ SetupInfluenceEdgesBulk
    \/ SetupInfluenceEdgesSingle

SpecGen == Init /\ [][NextGen]_vars

\* tokens are staked on support edges between support passes
NextStake ==
    \/ Bootstrap(MaxNodes, {MaxFunds})
    \/ AddProposal(MaxNodes, {MaxFunds})
    \/ SetupSupportEdges
    \/ Stake

SpecStake == Init /\ [][NextStake]_vars

\* proposals change status between conflict passes
NextStatus ==
    \/ Bootstrap(MaxSmall, {MaxFunds})
    \/ AddProposal(MaxSmall, {MaxFunds})
    \/ SetStatus
    \/ SetupConflictEdgesBulk

SpecStatus == Init /\ [][NextStatus]_vars

\* proposals change status between funds queries
NextFunds ==
    \/ Bootstrap(MaxSmall, FundsRequested)
    \/ AddProposal(MaxSmall, FundsRequested)
    \/ SetStatus
    \/ CalcTotalFundsRequested

SpecFunds == Init /\ [][NextFunds]_vars

\* the graph grows between median queries
NextMedian ==
    \/ Bootstrap(MaxNodes, {MaxFunds})
    \/ AddProposal(MaxNodes, {MaxFunds})
    \/ AddParticipant(MaxNodes)
    \/ CalcMedianAffinity

SpecMedian == Init /\ [][NextMedian]_vars

\* one Proposal, Proposal(funds_requested, trigger)
InitProposal ==
    /\ network = DiGraph
    /\ \E f \in FundsRequested, fp \in FundingPools, ts \in TokenSupplies :
         proposal = Proposal(f, trigger_threshold(f, fp, ts))
    /\ agent = None
    /\ config = None
    /\ ret = [op |-> "Proposal"]

NextProposal ==
    \/ UpdateAge
    \/ UpdateThreshold
    \/ HasEnoughConviction
    \/ ProposalSetStatus
    \/ ProposalSetConviction

SpecProposal == InitProposal /\ [][NextProposal]_vars

\* one Participant(holdings_vesting, holdings_nonvesting) under a configured
\* sentiment_sensitivity
InitParticipant ==
    /\ network = DiGraph
    /\ proposal = None
    /\ \E st \in Sentiments, hv \in Holdings :
         agent = ParticipantOf(st, hv, 0)
    /\ \E c \in Sensitivities : config = [sentiment_sensitivity |-> c]
    /\ ret = [op |-> "Participant", val |-> 0, buy |-> None, sell |-> None]

NextParticipant ==
    \/ ParticipantBuy
    \/ ParticipantSell
    \/ ParticipantStep

SpecParticipant == InitParticipant /\ [][NextParticipant]_vars

(* ------------------------------- claims ------------------------------- *)

IsParticipantNode(n, i) == i \in Nodes(n) /\ n.node[i].kind = "Participant"

IsProposalNode(n, i) == i \in Nodes(n) /\ n.node[i].kind = "Proposal"

ParticipantNodes(n) == {i \in Nodes(n) : n.node[i].kind = "Participant"}

ProposalNodes(n) == {i \in Nodes(n) : n.node[i].kind = "Proposal"}

\* C1: support completeness.  After bootstrap_network and any number of
\* completed add_proposal calls and participant insertions, every
\* (participant, proposal) pair of nodes carries an edge participant ->
\* proposal (the graph holds one attribute dict per ordered pair) and that
\* edge has type "support"; the support edges into a proposal come from
\* exactly the participants.
C1_SupportComplete ==
    /\ \A i \in ParticipantNodes(network), j \in ProposalNodes(network) :
         /\ <<i, j>> \in Edges(network)
         /\ network.edge[<<i, j>>].type = "support"
    /\ \A j \in ProposalNodes(network) :
         {e[1] : e \in {x \in Edges(network) : x[2] = j /\ network.edge[x].type = "support"}}
            = ParticipantNodes(network)

\* a participant has joined a graph that holds a proposal added by add_proposal
\* or bootstrap, and is wired to it
C1_Witness ==
    /\ ret.op = "add_participant"
    /\ \E j \in ProposalNodes(network) :
         /\ <<ret.participant, j>> \in Edges(network)
         /\ \E i \in ParticipantNodes(network) : i # ret.participant

\* the range the spec documents for an affinity, [-1, 1] (its data model; the
\* glossary's [-3, 1] contains it), in ten-thousandths
AffinityDocumented(a) == a >= -AffinityUnit /\ a <= AffinityUnit

\* C2: add_proposal on a graph with N nodes, P of them participants, inserts
\* the proposal at node id N, an id no node holds, replaces no node's item,
\* returns N, and adds exactly P edges: one from each participant to N, each
\* with type "support", tokens = 0, conviction = 0 and an affinity in the
\* documented range.
C2_AddProposal ==
    [][ret'.op = "add_proposal" =>
        LET N == Cardinality(Nodes(network))
            P == ParticipantNodes(network)
            new == Edges(network') \ Edges(network)
        IN  /\ N \notin Nodes(network)
            /\ ret'.val = N
            /\ Nodes(network') = Nodes(network) \cup {N}
            /\ network'.node[N].kind = "Proposal"
            /\ \A i \in Nodes(network) : network'.node[i] = network.node[i]
            /\ new = {<<i, N>> : i \in P}
            /\ Cardinality(new) = Cardinality(P)
            /\ \A e \in new :
                 /\ DOMAIN network'.edge[e] = {"affinity", "tokens", "conviction", "type"}
                 /\ network'.edge[e].type = "support"
                 /\ network'.edge[e].tokens = 0
                 /\ network'.edge[e].conviction = 0
                 /\ AffinityDocumented(network'.edge[e].affinity)
    ]_vars

\* add_proposal has returned on a graph with two participants, which both
\* got an edge to the new node
C2_Witness ==
    /\ ret.op = "add_proposal"
    /\ Cardinality(ParticipantNodes(network)) = 2
    /\ \A i \in ParticipantNodes(network) : <<i, ret.val>> \in Edges(network)

\* C3: add_proposal is incremental.  Every node and every edge the graph held
\* is still there with every attribute unchanged, and every edge it added is a
\* support edge into the new proposal: no conflict or influence edge is made.
C3_AddProposalFrame ==
    [][ret'.op = "add_proposal" =>
        /\ \A i \in Nodes(network) :
             i \in Nodes(network') /\ network'.node[i] = network.node[i]
        /\ \A e \in Edges(network) :
             e \in Edges(network') /\ network'.edge[e] = network.edge[e]
        /\ \A e \in Edges(network') \ Edges(network) :
             /\ network'.edge[e].type = "support"
             /\ e[2] = ret'.val
             /\ e[2] \notin Nodes(network)
    ]_vars

\* add_proposal has returned on a graph that already held a support edge into
\* an older proposal
C3_Witness ==
    /\ ret.op = "add_proposal"
    /\ \E e \in Edges(network) :
         /\ network.edge[e].type = "support"
         /\ e[2] # ret.val
    /\ \E i \in ParticipantNodes(network) : <<i, ret.val>> \in Edges(network)

\* C4: a support pass acts only on pairs that lack a support edge: every
\* support edge the graph held before setup_support_edges (bulk or for a node
\* index) keeps its affinity, tokens and conviction.
C4_SupportPassKeepsEdges ==
    [][ret'.op = "setup_support_edges" =>
        \A e \in Edges(network) :
            network.edge[e].type = "support" =>
                /\ e \in Edges(network')
                /\ network'.edge[e].affinity = network.edge[e].affinity
                /\ network'.edge[e].tokens = network.edge[e].tokens
                /\ network'.edge[e].conviction = network.edge[e].conviction
    ]_vars

\* the attribute keys an edge of each type holds
EdgeKeys(type) ==
    CASE type = "support" -> {"affinity", "tokens", "conviction", "type"}
      [] type = "conflict" -> {"conflict", "type"}
      [] type = "influence" -> {"influence", "type"}
      [] OTHER -> {}

\* C5: edge structure.  No edge is a self-loop; the edge of an ordered pair
\* has exactly one type (its attributes are those of that type and no other);
\* a support edge goes participant -> proposal, a conflict edge proposal ->
\* proposal, an influence edge participant -> participant.
C5_EdgeStructure ==
    \A e \in Edges(network) :
        LET a == network.edge[e]
        IN  /\ e[1] # e[2]
            /\ e[1] \in Nodes(network) /\ e[2] \in Nodes(network)
            /\ "type" \in DOMAIN a
            /\ a.type \in {"support", "conflict", "influence"}
            /\ DOMAIN a = EdgeKeys(a.type)
            /\ a.type = "support" =>
                 IsParticipantNode(network, e[1]) /\ IsProposalNode(network, e[2])
            /\ a.type = "conflict" =>
                 IsProposalNode(network, e[1]) /\ IsProposalNode(network, e[2])
            /\ a.type = "influence" =>
                 IsParticipantNode(network, e[1]) /\ IsParticipantNode(network, e[2])

\* a generator has been re-run on a graph whose two nodes are joined in both
\* directions
C5_Witness ==
    /\ ret.op \in {"setup_conflict_edges", "setup_influence_edges_bulk",
                   "setup_influence_edges_single"}
    /\ \E e \in Edges(network) : <<e[2], e[1]>> \in Edges(network)

\* C7: inserting a participant next to K others, with no influence edge to or
\* from it before, evaluates influence() exactly 2K times, once per direction
\* per other participant; a direction gets an influence edge exactly when its
\* evaluation returned a value, the edge stores that value, and the value is
\* at or above scale + sigmas*scale^2.  When every evaluation returns a value,
\* every other participant has an influence edge into the new one.
C7_InfluenceSingle ==
    ret.op = "add_participant" =>
        LET p == ret.participant
            others == ParticipantNodes(network) \ {p}
            K == Cardinality(others)
            calls == ret.calls
        IN  /\ Cardinality(DOMAIN calls) = 2 * K
            /\ DOMAIN calls = (others \X {p}) \cup ({p} \X others)
            /\ \A e \in DOMAIN calls :
                 /\ e \in Edges(network) <=> calls[e] # None
                 /\ e \in Edges(network) =>
                      /\ network.edge[e].type = "influence"
                      /\ network.edge[e].influence = calls[e][1]
                      /\ network.edge[e].influence >= scale + sigmas * scale * scale
            /\ (\A e \in DOMAIN calls : calls[e] # None) =>
                 \A o \in others : <<o, p>> \in Edges(network)

\* a participant was inserted next to two others and all four evaluations
\* returned a value
C7_Witness ==
    /\ ret.op = "add_participant"
    /\ Cardinality(ParticipantNodes(network) \ {ret.participant}) = 2
    /\ \A e \in DOMAIN ret.calls : ret.calls[e] # None
    /\ \A o \in ParticipantNodes(network) \ {ret.participant} :
         <<o, ret.participant>> \in Edges(network)

\* C6 as stated: every conflict edge a bulk setup_conflict_edges pass creates
\* joins an ordered pair of distinct proposals that are both CANDIDATE.
C6_OnlyCandidates ==
    (ret.op = "setup_conflict_edges" /\ ret.proposal = None) =>
        \A e \in ret.added :
            /\ e[1] # e[2]
            /\ IsProposalNode(network, e[1]) /\ network.node[e[1]].status = "CANDIDATE"
            /\ IsProposalNode(network, e[2]) /\ network.node[e[2]].status = "CANDIDATE"

\* C6: every conflict edge a bulk setup_conflict_edges pass creates joins an
\* ordered pair of distinct proposals, whatever their status, and stores
\* conflict = 1 - draw above 1 - rate; the pass creates no edge at a
\* participant and no self-loop.
C6_AnyStatus ==
    (ret.op = "setup_conflict_edges" /\ ret.proposal = None) =>
        \A e \in ret.added :
            /\ e[1] # e[2]
            /\ IsProposalNode(network, e[1])
            /\ IsProposalNode(network, e[2])
            /\ e \in Edges(network)
            /\ network.edge[e].type = "conflict"
            /\ network.edge[e].conflict > One - rate
            /\ network.edge[e].conflict <= One

\* a bulk pass created a conflict edge from a proposal that is no longer
\* CANDIDATE to one that still is
C6_Witness ==
    /\ ret.op = "setup_conflict_edges"
    /\ ret.proposal = None
    /\ \E e \in ret.added :
         /\ network.node[e[1]].status # "CANDIDATE"
         /\ network.node[e[2]].status = "CANDIDATE"

\* C8: has_enough_conviction raises exactly for a proposal that is not
\* CANDIDATE; for a CANDIDATE it returns FALSE below
\* trigger_threshold(funds_requested, funding_pool, token_supply) and TRUE at
\* or above it; either way the proposal's conviction, status, age and cached
\* trigger are unchanged.
C8_HasEnoughConviction ==
    [][ret'.op = "has_enough_conviction" =>
        LET threshold == trigger_threshold(proposal.funds_requested,
                                           ret'.funding_pool, ret'.token_supply)
        IN  /\ ret'.raised <=> proposal.status \in {"ACTIVE", "COMPLETED", "FAILED"}
            /\ ~ret'.raised =>
                 /\ proposal.conviction < threshold => ret'.val = FALSE
                 /\ proposal.conviction >= threshold => ret'.val = TRUE
            /\ proposal'.conviction = proposal.conviction
            /\ proposal'.status = proposal.status
            /\ proposal'.age = proposal.age
            /\ proposal'.trigger = proposal.trigger
    ]_vars

\* a CANDIDATE whose conviction equals the threshold was asked and answered
\* TRUE
C8_Witness ==
    /\ ret.op = "has_enough_conviction"
    /\ ~ret.raised
    /\ ret.val = TRUE
    /\ proposal.conviction > 0
    /\ proposal.conviction = trigger_threshold(proposal.funds_requested,
                                               ret.funding_pool, ret.token_supply)

\* C9 as stated: in every state of a Proposal the cached trigger is defined
\* exactly while status is CANDIDATE, and NaN once status has left CANDIDATE.
C9_TriggerValid ==
    /\ proposal.status = "CANDIDATE" => proposal.trigger # NaN
    /\ proposal.status # "CANDIDATE" => proposal.trigger = NaN

\* C9: the trigger of a CANDIDATE is never NaN; a status change, update_age
\* and has_enough_conviction leave the trigger as it was, so a proposal that
\* has left CANDIDATE keeps its last trigger until update_threshold is called,
\* which sets it to NaN (and to trigger_threshold(...) for a CANDIDATE); once
\* NaN it stays NaN.
C9_TriggerLazy ==
    [][/\ proposal'.status = "CANDIDATE" => proposal'.trigger # NaN
       /\ ret'.op # "update_threshold" => proposal'.trigger = proposal.trigger
       /\ ret'.op = "update_threshold" =>
            /\ proposal'.trigger =
                 IF proposal.status = "CANDIDATE"
                 THEN trigger_threshold(proposal.funds_requested,
                                        ret'.funding_pool, ret'.token_supply)
                 ELSE NaN
            /\ ret'.val = proposal'.trigger
       /\ proposal.trigger = NaN => proposal'.trigger = NaN
    ]_vars

\* update_threshold was called on a proposal that had left CANDIDATE and set
\* its trigger to NaN
C9_Witness ==
    /\ ret.op = "update_threshold"
    /\ proposal.status # "CANDIDATE"
    /\ proposal.trigger = NaN
    /\ ret.val = NaN

\* the sum of funds_requested over a set of proposal nodes
RECURSIVE SumFunds(_, _)
SumFunds(n, S) ==
    IF S = {} THEN 0
    ELSE LET i == CHOOSE x \in S : TRUE
         IN  n.node[i].funds_requested + SumFunds(n, S \ {i})

\* C10: calc_total_funds_requested returns the sum of funds_requested over
\* exactly the proposals whose status is CANDIDATE (0 when there is none) and
\* changes nothing in the graph.
C10_TotalFundsRequested ==
    [][ret'.op = "calc_total_funds_requested" =>
        /\ ret'.val = SumFunds(network,
                               {i \in ProposalNodes(network) :
                                    network.node[i].status = "CANDIDATE"})
        /\ (\A i \in ProposalNodes(network) : network.node[i].status # "CANDIDATE")
               => ret'.val = 0
        /\ network' = network
    ]_vars

\* the query ran on a graph with one CANDIDATE proposal and one that has left
\* CANDIDATE, and returned the CANDIDATE's request only
C10_Witness ==
    /\ ret.op = "calc_total_funds_requested"
    /\ \E i, j \in ProposalNodes(network) :
         /\ network.node[i].status = "CANDIDATE"
         /\ network.node[j].status # "CANDIDATE"
         /\ ret.val = network.node[i].funds_requested

\* the support edges of the graph
SupportEdges(n) == {e \in Edges(n) : n.edge[e].type = "support"}

\* v is the j-th smallest affinity over the support edges S
IsRank(n, S, v, j) ==
    /\ Cardinality({e \in S : n.edge[e].affinity < v}) < j
    /\ j <= Cardinality({e \in S : n.edge[e].affinity <= v})

\* C11: calc_median_affinity raises, and returns no number, exactly when the
\* graph has no support edge, whatever conflict and influence edges it has;
\* otherwise it returns the median of the affinities of the support edges
\* alone: the middle one by rank, or the mean of the two middle ones, which
\* for a single support edge is that edge's affinity.
C11_MedianAffinity ==
    ret.op = "calc_median_affinity" =>
        LET S == SupportEdges(network)
            k == Cardinality(S)
        IN  /\ ret.raised <=> k = 0
            /\ ret.raised => ret.val = None
            /\ ~ret.raised =>
                 /\ ret.val # None
                 /\ \E lo, hi \in S :
                      /\ IsRank(network, S, network.edge[lo].affinity, (k + 1) \div 2)
                      /\ IsRank(network, S, network.edge[hi].affinity, k \div 2 + 1)
                      /\ 2 * ret.val[1] =
                           network.edge[lo].affinity + network.edge[hi].affinity
                 /\ \A e \in S : k = 1 => ret.val[1] = network.edge[e].affinity

\* the query raised on a graph that has conflict or influence edges and no
\* support edge
C11_Witness ==
    /\ ret.op = "calc_median_affinity"
    /\ ret.raised
    /\ Edges(network) # {}
    /\ SupportEdges(network) = {}

\* the amount a call returned is not zero
Fired(r) == r # None /\ r[1] # 0

\* C12: whatever the sentiment and the draws, buy returns an amount that is
\* never negative and is non-zero only when force = sentiment -
\* sentiment_sensitivity is above 0, sell returns an amount that is never
\* positive and is non-zero only when force is below 0, so buy and sell never
\* both return a non-zero amount in one step; neither call changes the
\* participant's sentiment or holdings.
C12_BuySell ==
    [][/\ ret'.op = "buy" =>
            /\ ret'.val >= 0
            /\ ret'.val # 0 => agent.sentiment - config.sentiment_sensitivity > 0
       /\ ret'.op = "sell" =>
            /\ ret'.val <= 0
            /\ ret'.val # 0 => agent.sentiment - config.sentiment_sensitivity < 0
       /\ ret'.op \in {"buy", "sell"} =>
            /\ ~(Fired(ret'.buy) /\ Fired(ret'.sell))
            /\ agent'.sentiment = agent.sentiment
            /\ agent'.holdings_vesting = agent.holdings_vesting
            /\ agent'.holdings_nonvesting = agent.holdings_nonvesting
    ]_vars

\* in one step buy returned a non-zero amount and sell, called after it,
\* returned 0
C12_Witness ==
    /\ ret.op = "sell"
    /\ Fired(ret.buy)
    /\ ret.sell = Some(0)
    /\ agent.sentiment - config.sentiment_sensitivity > 0

====
